---- MODULE Spec2Model ----
(***************************************************************************)
(* Model of src/src/lib.rs: prime-field arithmetic (FiniteField) and the   *)
(* affine group law of a short Weierstrass curve y^2 = x^3 + ax + b        *)
(* (EllipticCurve), with the panics of the assert! macros and of BigUint   *)
(* made explicit as outcomes.                                              *)
(***************************************************************************)
EXTENDS Integers, Sequences, FiniteSets, TLC

VARIABLES ec, pc, call, ret, t, i

vars == <<ec, pc, call, ret, t, i>>

(***************************************************************************)
(* Bounds of the model.                                                    *)
(***************************************************************************)
\* largest modulus handed to the FiniteField functions
MaxMod == 31
\* largest scalar handed to scalar_mult
MaxK == 21

(***************************************************************************)
(* Values.                                                                 *)
(***************************************************************************)
\* outcome of a BigUint-valued function whose assert! (or BigUint subtraction)
\* panicked; real results are >= 0
Panicked == -1

\* enum Point
Identity == [tag |-> "Identity"]
Coor(x, y) == [tag |-> "Coor", x |-> x, y |-> y]
\* outcome of a Point-valued function that panicked
PanicPt == [tag |-> "Panic"]
\* outcome of a call that has not returned (yet, or ever)
Pending == [tag |-> "Pending"]

\* d.bits() - 1 evaluated for d = 0 in a build without overflow checks: the u64
\* wraps to 2^64 - 1; the loop counter is then kept as this token, never counted
\* down to 0
Wrapped == -2

(***************************************************************************)
(* BigUint helpers.                                                        *)
(***************************************************************************)
RECURSIVE Pow2(_)
Pow2(n) == IF n = 0 THEN 1 ELSE 2 * Pow2(n - 1)

\* BigUint::bits: number of bits of d, 0 for d = 0
RECURSIVE Bits(_)
Bits(d) == IF d = 0 THEN 0 ELSE 1 + Bits(d \div 2)

\* BigUint::bit(n): the n-th bit of d
Bit(d, n) == (d \div Pow2(n)) % 2 = 1

\* BigUint::modpow by square and multiply; panics on a zero modulus
RECURSIVE PowMod(_, _, _)
PowMod(base, e, m) ==
  IF e = 0 THEN (IF m = 1 THEN 0 ELSE 1)
  ELSE LET h == PowMod(base, e \div 2, m)
           sq == (h * h) % m
       IN IF e % 2 = 1 THEN (sq * (base % m)) % m ELSE sq

modpow(base, e, m) ==
  IF base = Panicked \/ e = Panicked \/ m = Panicked THEN Panicked
  ELSE IF m = 0 THEN Panicked
  ELSE PowMod(base, e, m)

\* BigUint - BigUint panics when the result would be negative
BigSub(a, b) ==
  IF a = Panicked \/ b = Panicked THEN Panicked
  ELSE IF a < b THEN Panicked
  ELSE a - b

(***************************************************************************)
(* impl FiniteField                                                        *)
(***************************************************************************)
FiniteField_add(a, b, p) ==
  IF a = Panicked \/ b = Panicked THEN Panicked
  ELSE IF ~(a < p) THEN Panicked
  ELSE IF ~(b < p) THEN Panicked
  ELSE modpow(a + b, 1, p)

FiniteField_mult(a, b, p) ==
  IF a = Panicked \/ b = Panicked THEN Panicked
  ELSE IF ~(a < p) THEN Panicked
  ELSE IF ~(b < p) THEN Panicked
  ELSE modpow(a * b, 1, p)

FiniteField_inv_add(a, p) ==
  IF a = Panicked THEN Panicked
  ELSE IF ~(a < p) THEN Panicked
  ELSE BigSub(p, a)

inv_mult_wrong_exponent(a, p) ==
  IF a = Panicked THEN Panicked
  ELSE IF ~(a < p) THEN Panicked
  ELSE modpow(a, BigSub(p, 1), p)

FiniteField_inv_mult(a, p) ==
  IF a = Panicked THEN Panicked
  ELSE IF ~(a < p) THEN Panicked
  ELSE modpow(a, BigSub(p, 2), p)

FiniteField_sub(a, b, p) ==
  IF a = Panicked \/ b = Panicked THEN Panicked
  ELSE IF ~(a < p) THEN Panicked
  ELSE IF ~(b < p) THEN Panicked
  ELSE LET b_inv == FiniteField_inv_add(b, p)
       IN FiniteField_add(a, b_inv, p)

FiniteField_div(a, b, p) ==
  IF a = Panicked \/ b = Panicked THEN Panicked
  ELSE IF ~(a < p) THEN Panicked
  ELSE IF ~(b < p) THEN Panicked
  ELSE LET b_inv == FiniteField_inv_mult(b, p)
       IN FiniteField_mult(a, b_inv, p)

(***************************************************************************)
(* impl EllipticCurve; e is the struct { a, b, p }                         *)
(***************************************************************************)
EllipticCurve_is_on_curve(e, c) ==
  IF c.tag = "Coor"
  THEN LET y2 == modpow(c.y, 2, e.p)
           x3 == modpow(c.x, 3, e.p)
           ax == FiniteField_mult(e.a, c.x, e.p)
           rhs == FiniteField_add(x3, FiniteField_add(ax, e.b, e.p), e.p)
       IN IF y2 = Panicked \/ rhs = Panicked THEN Panicked
          ELSE IF y2 = rhs THEN 1 ELSE 0
  ELSE 1

\* assert!(self.is_on_curve(c), "Point is not on curve") passes
AssertOnCurve(e, c) == EllipticCurve_is_on_curve(e, c) = 1

\* the chord formula of add, lines 39-51
Chord(e, x1, y1, x2, y2) ==
  LET y2minusy1 == FiniteField_sub(y2, y1, e.p)
      x2minusx1 == FiniteField_sub(x2, x1, e.p)
      s == FiniteField_div(y2minusy1, x2minusx1, e.p)
      s2 == modpow(s, 2, e.p)
      s2minusx1 == FiniteField_sub(s2, x1, e.p)
      x3 == FiniteField_sub(s2minusx1, x2, e.p)
      x1minusx3 == FiniteField_sub(x1, x3, e.p)
      sx1minusx3 == FiniteField_mult(s, x1minusx3, e.p)
      y3 == FiniteField_sub(sx1minusx3, y1, e.p)
  IN IF x3 = Panicked \/ y3 = Panicked THEN PanicPt ELSE Coor(x3, y3)

EllipticCurve_add(e, c, d) ==
  IF ~AssertOnCurve(e, c) THEN PanicPt
  ELSE IF ~AssertOnCurve(e, d) THEN PanicPt
  ELSE IF ~(c # d) THEN PanicPt
  ELSE IF c.tag = "Identity" THEN d
  ELSE IF d.tag = "Identity" THEN c
  ELSE LET y1plusy2 == FiniteField_add(c.y, d.y, e.p)
       IN IF y1plusy2 = Panicked THEN PanicPt
          ELSE IF c.x = d.x /\ y1plusy2 = 0 THEN Identity
          ELSE Chord(e, c.x, c.y, d.x, d.y)

EllipticCurve_double(e, c) ==
  IF ~AssertOnCurve(e, c) THEN PanicPt
  ELSE IF c.tag = "Identity" THEN Identity
  ELSE LET x1 == c.x
           y1 == c.y
           x1square == modpow(x1, 2, e.p)
           x1square3 == FiniteField_mult(3, x1square, e.p)
           numerator == FiniteField_add(x1square3, e.a, e.p)
           denominator == FiniteField_mult(2, y1, e.p)
           s == FiniteField_div(numerator, denominator, e.p)
           s2 == modpow(s, 2, e.p)
           s2minusx1 == FiniteField_sub(s2, x1, e.p)
           x3 == FiniteField_sub(s2minusx1, x1, e.p)
           x1minusx3 == FiniteField_sub(x1, x3, e.p)
           sx1minusx3 == FiniteField_mult(s, x1minusx3, e.p)
           y3 == FiniteField_sub(sx1minusx3, y1, e.p)
       IN IF x3 = Panicked \/ y3 = Panicked THEN PanicPt ELSE Coor(x3, y3)

(***************************************************************************)
(* Inputs.                                                                 *)
(***************************************************************************)
\* y^2 = x^3 + 2x + 2 over F_17 (the curve of the tests, group of order 19)
\* and y^2 = x^3 + x + 3 over F_5 (group of order 4, with the point (1, 0))
Curves == { [a |-> 2, b |-> 2, p |-> 17], [a |-> 1, b |-> 3, p |-> 5] }

\* every point with reduced coordinates, on the curve or not
Points(e) == {Identity} \cup {Coor(x, y) : x \in 0 .. e.p - 1, y \in 0 .. e.p - 1}

\* moduli and operands of the field functions; p itself is an operand that is
\* not reduced
Moduli == 0 .. MaxMod
Operands(p) == 0 .. p
Scalars == 0 .. MaxK

(***************************************************************************)
(* State machine: the functions are pure, so a behaviour is one invocation *)
(* on the immutable curve ec: call is the invocation, ret its outcome and  *)
(* pc = "done" says it has returned or panicked.  scalar_mult is unfolded  *)
(* into the steps of its loop: t and i are its locals.                     *)
(***************************************************************************)
NoCall == [fn |-> "none", args |-> <<>>]

Init ==
  /\ ec \in Curves
  /\ pc = "idle"
  /\ call = NoCall
  /\ ret = Pending
  /\ t = Identity
  /\ i = 0

\* a call of a function without a loop: taken and returned in one step
Returns(fn, args, r) ==
  /\ pc' = "done"
  /\ call' = [fn |-> fn, args |-> args]
  /\ ret' = r
  /\ UNCHANGED <<ec, t, i>>

Call_FiniteField_add ==
  /\ pc = "idle"
  /\ \E p \in Moduli : \E a, b \in Operands(p) :
       Returns("FiniteField::add", <<a, b, p>>, FiniteField_add(a, b, p))

Call_FiniteField_mult ==
  /\ pc = "idle"
  /\ \E p \in Moduli : \E a, b \in Operands(p) :
       Returns("FiniteField::mult", <<a, b, p>>, FiniteField_mult(a, b, p))

Call_FiniteField_sub ==
  /\ pc = "idle"
  /\ \E p \in Moduli : \E a, b \in Operands(p) :
       Returns("FiniteField::sub", <<a, b, p>>, FiniteField_sub(a, b, p))

Call_FiniteField_div ==
  /\ pc = "idle"
  /\ \E p \in Moduli : \E a, b \in Operands(p) :
       Returns("FiniteField::div", <<a, b, p>>, FiniteField_div(a, b, p))

Call_FiniteField_inv_add ==
  /\ pc = "idle"
  /\ \E p \in Moduli : \E a \in Operands(p) :
       Returns("FiniteField::inv_add", <<a, p>>, FiniteField_inv_add(a, p))

Call_FiniteField_inv_mult ==
  /\ pc = "idle"
  /\ \E p \in Moduli : \E a \in Operands(p) :
       Returns("FiniteField::inv_mult", <<a, p>>, FiniteField_inv_mult(a, p))

Call_is_on_curve ==
  /\ pc = "idle"
  /\ \E c \in Points(ec) :
       Returns("is_on_curve", <<c>>, EllipticCurve_is_on_curve(ec, c))

Call_add ==
  /\ pc = "idle"
  /\ \E c, d \in Points(ec) :
       Returns("add", <<c, d>>, EllipticCurve_add(ec, c, d))

Call_double ==
  /\ pc = "idle"
  /\ \E c \in Points(ec) :
       Returns("double", <<c>>, EllipticCurve_double(ec, c))

(***************************************************************************)
(* scalar_mult(c, d), lines 87-96.  pc = "double": about to run line 90    *)
(* with loop variable i; pc = "add": line 91 found bit i set and line 92   *)
(* is about to run.                                                        *)
(***************************************************************************)
Return(r) ==
  /\ pc' = "done"
  /\ ret' = r
  /\ UNCHANGED <<ec, call, t, i>>

\* the end of one pass through the loop body, with nt the new value of t.
\* The range is visited in reverse, so i = 0 is the last pass; the wrapped
\* range does not end within the model.
NextPass(nt) ==
  IF i = 0
  THEN /\ pc' = "done"
       /\ ret' = nt
       /\ t' = nt
       /\ UNCHANGED <<ec, call, i>>
  ELSE /\ pc' = "double"
       /\ t' = nt
       /\ i' = IF i = Wrapped THEN Wrapped ELSE i - 1
       /\ UNCHANGED <<ec, call, ret>>

\* lines 88-89 for d >= 1: t = c.clone(); the range 0 .. d.bits() - 1 is empty
\* when d has one bit
Call_scalar_mult ==
  /\ pc = "idle"
  /\ \E c \in Points(ec) : \E d \in Scalars :
       /\ d # 0
       /\ call' = [fn |-> "scalar_mult", args |-> <<c, d>>]
       /\ t' = c
       /\ IF Bits(d) - 1 = 0
          THEN /\ pc' = "done"
               /\ ret' = c
               /\ i' = 0
          ELSE /\ pc' = "double"
               /\ ret' = Pending
               /\ i' = Bits(d) - 2
       /\ UNCHANGED ec

\* line 89 for d = 0: d.bits() - 1 underflows the u64.  A build with overflow
\* checks panics;
Call_scalar_mult_zero_checked ==
  /\ pc = "idle"
  /\ \E c \in Points(ec) :
       /\ call' = [fn |-> "scalar_mult", args |-> <<c, 0>>]
       /\ pc' = "done"
       /\ ret' = PanicPt
       /\ t' = c
       /\ i' = 0
       /\ UNCHANGED ec

\* a build without them wraps and starts a loop of 2^64 - 1 passes.
Call_scalar_mult_zero_wrapping ==
  /\ pc = "idle"
  /\ \E c \in Points(ec) :
       /\ call' = [fn |-> "scalar_mult", args |-> <<c, 0>>]
       /\ pc' = "double"
       /\ ret' = Pending
       /\ t' = c
       /\ i' = Wrapped
       /\ UNCHANGED ec

double_result_discarded(tt) == tt

\* line 90: the value self.double(&t) assigns to t
DoubleStep(tt) == EllipticCurve_double(ec, tt)

\* lines 90-91: t = self.double(&t); if d.bit(i)
Step_double ==
  /\ pc = "double"
  /\ LET nt == DoubleStep(t)
         d == call.args[2]
     IN IF nt = PanicPt THEN Return(PanicPt)
        ELSE IF i # Wrapped /\ Bit(d, i)
        THEN /\ pc' = "add"
             /\ t' = nt
             /\ UNCHANGED <<ec, call, ret, i>>
        ELSE NextPass(nt)

\* line 92: t = self.add(&t, c)
Step_add ==
  /\ pc = "add"
  /\ LET nt == EllipticCurve_add(ec, t, call.args[1])
     IN IF nt = PanicPt THEN Return(PanicPt)
        ELSE NextPass(nt)

Next ==
  \/ Call_FiniteField_add
  \/ Call_FiniteField_mult
  \/ Call_FiniteField_sub
  \/ Call_FiniteField_div
  \/ Call_FiniteField_inv_add
  \/ Call_FiniteField_inv_mult
  \/ Call_is_on_curve
  \/ Call_add
  \/ Call_double
  \/ Call_scalar_mult
  \/ Call_scalar_mult_zero_checked
  \/ Call_scalar_mult_zero_wrapping
  \/ Step_double
  \/ Step_add

Spec == Init /\ [][Next]_vars

(***************************************************************************)
(* The group law as the specification states it (sections 4.1 and 4.2),    *)
(* in plain modular arithmetic: the reference the claims compare with.     *)
(***************************************************************************)
IsPrime(n) == n > 1 /\ \A k \in 2 .. n - 1 : n % k # 0

FieldInv(b, p) == CHOOSE r \in 1 .. p - 1 : (b * r) % p = 1

Slope(num, den, p) == ((num % p) * FieldInv(den % p, p)) % p

Third(e, s, P, Q) ==
  LET x3 == (s * s + 2 * e.p - P.x - Q.x) % e.p
      y3 == (s * (P.x + e.p - x3) + e.p - P.y) % e.p
  IN Coor(x3, y3)

GroupDouble(e, P) ==
  IF P.tag = "Identity" THEN Identity
  ELSE IF P.y = 0 THEN Identity
  ELSE Third(e, Slope(3 * P.x * P.x + e.a, 2 * P.y, e.p), P, P)

GroupAdd(e, P, Q) ==
  IF P.tag = "Identity" THEN Q
  ELSE IF Q.tag = "Identity" THEN P
  ELSE IF P.x = Q.x /\ (P.y + Q.y) % e.p = 0 THEN Identity
  ELSE IF P = Q THEN GroupDouble(e, P)
  ELSE Third(e, Slope(Q.y + e.p - P.y, Q.x + e.p - P.x, e.p), P, Q)

\* R = Identity; for each bit of k from MSB to LSB: R = double(R); if the bit
\* is 1, R = add(R, P)
RECURSIVE CanonicalScalarMul(_, _, _)
CanonicalScalarMul(e, P, k) ==
  IF k = 0 THEN Identity
  ELSE LET R == GroupDouble(e, CanonicalScalarMul(e, P, k \div 2))
       IN IF k % 2 = 1 THEN GroupAdd(e, R, P) ELSE R

\* is_on_curve as a predicate on outcomes: Identity, or Coor(x, y) with reduced
\* coordinates on the curve
OnCurve(e, P) ==
  \/ P.tag = "Identity"
  \/ /\ P.tag = "Coor"
     /\ P.x \in 0 .. e.p - 1
     /\ P.y \in 0 .. e.p - 1
     /\ (P.y * P.y) % e.p = (P.x * P.x * P.x + e.a * P.x + e.b) % e.p

Affine(e, P) == P.tag = "Coor" /\ OnCurve(e, P)

\* the order of P is q
HasOrder(e, P, q) ==
  /\ CanonicalScalarMul(e, P, q) = Identity
  /\ \A k \in 1 .. q - 1 : CanonicalScalarMul(e, P, k) # Identity

Returned(fn) == pc = "done" /\ call.fn = fn

F17 == [a |-> 2, b |-> 2, p |-> 17]
F5 == [a |-> 1, b |-> 3, p |-> 5]

(***************************************************************************)
(* Claims.                                                                 *)
(***************************************************************************)
\* C1: for every affine point P on the curve and every k >= 1,
\* scalar_mult(P, k) returns k.P, the result of the canonical MSB-first
\* double-and-add under the specification's group law.
C1_ScalarMultIsCanonical ==
  (/\ Returned("scalar_mult")
   /\ Affine(ec, call.args[1])
   /\ call.args[2] >= 1)
  => ret = CanonicalScalarMul(ec, call.args[1], call.args[2])

\* C2: double(P) and add(P, Q) of points on the curve return a point on the
\* curve (Identity, or reduced coordinates satisfying the curve equation).
C2_ResultsOnCurve ==
  /\ (Returned("double") /\ OnCurve(ec, call.args[1])) => OnCurve(ec, ret)
  /\ (/\ Returned("add")
      /\ OnCurve(ec, call.args[1])
      /\ OnCurve(ec, call.args[2])) => OnCurve(ec, ret)

\* C3: add detects the equal-point case itself: for an affine P on the curve
\* with y # 0, add(P, P) returns the point double(P) returns.
C3_AddRoutesEqualPointsToDouble ==
  (/\ Returned("add")
   /\ call.args[1] = call.args[2]
   /\ Affine(ec, call.args[1])
   /\ call.args[1].y # 0)
  => /\ ret # PanicPt
     /\ ret = EllipticCurve_double(ec, call.args[1])

\* C4: for a point A of prime order q, scalar_mult(A, q) returns Identity.
C4_OrderTimesGeneratorIsIdentity ==
  (/\ Returned("scalar_mult")
   /\ IsPrime(call.args[2])
   /\ Affine(ec, call.args[1])
   /\ HasOrder(ec, call.args[1], call.args[2]))
  => ret = Identity

\* C5: for every point P on the curve and every k >= 0, scalar_mult(P, k)
\* returns Identity when k = 0 or P = Identity.
C5_ZeroScalarOrIdentityGivesIdentity ==
  (/\ Returned("scalar_mult")
   /\ OnCurve(ec, call.args[1])
   /\ (call.args[2] = 0 \/ call.args[1] = Identity))
  => ret = Identity

\* C6: add is commutative (add(P, Q) and add(Q, P) have the same outcome) and
\* Identity is neutral on both sides, for all points on the curve.
C6_AddCommutativeWithNeutralIdentity ==
  (/\ Returned("add")
   /\ OnCurve(ec, call.args[1])
   /\ OnCurve(ec, call.args[2]))
  => /\ ret = EllipticCurve_add(ec, call.args[2], call.args[1])
     /\ call.args[2] = Identity => ret = call.args[1]
     /\ call.args[1] = Identity => ret = call.args[2]

\* C7: for a, b in [0, p-1], add, sub and mult return a value in [0, p-1], and
\* sub returns (a + (p - b)) mod p when b # 0 and a when b = 0.
C7_FieldResultsReduced ==
  (/\ pc = "done"
   /\ call.fn \in {"FiniteField::add", "FiniteField::sub", "FiniteField::mult"}
   /\ call.args[1] \in 0 .. call.args[3] - 1
   /\ call.args[2] \in 0 .. call.args[3] - 1)
  => /\ ret \in 0 .. call.args[3] - 1
     /\ call.fn = "FiniteField::sub" =>
          ret = IF call.args[2] # 0
                THEN (call.args[1] + (call.args[3] - call.args[2])) % call.args[3]
                ELSE call.args[1]

\* C8: for a in [0, p-1], inv_add(a, p) is p - a when a # 0 and 0 when a = 0,
\* and add(a, inv_add(a, p), p) returns 0.
C8_InvAddIsAdditiveInverse ==
  (/\ Returned("FiniteField::inv_add")
   /\ call.args[1] \in 0 .. call.args[2] - 1)
  => /\ ret = IF call.args[1] # 0 THEN call.args[2] - call.args[1] ELSE 0
     /\ FiniteField_add(call.args[1], ret, call.args[2]) = 0

\* C9: for a prime p and a in [1, p-1], inv_mult(a, p) returns r in [1, p-1]
\* with mult(a, r, p) = 1.
C9_InvMultIsMultiplicativeInverse ==
  (/\ Returned("FiniteField::inv_mult")
   /\ IsPrime(call.args[2])
   /\ call.args[1] \in 1 .. call.args[2] - 1)
  => /\ ret \in 1 .. call.args[2] - 1
     /\ FiniteField_mult(call.args[1], ret, call.args[2]) = 1

C9_Witness ==
  /\ Returned("FiniteField::inv_mult")
  /\ call.args = <<4, 31>>
  /\ ret = 8

\* C10: inside scalar_mult(P, k), for an affine P of prime order q and
\* 1 <= k <= q, every add step finds the accumulator t different from P, so the
\* assertion c != d of add holds there.
C10_AddStepOperandsDiffer ==
  (/\ pc = "add"
   /\ call.args[2] >= 1
   /\ Affine(ec, call.args[1])
   /\ \E q \in call.args[2] .. 2 * ec.p + 2 :
        IsPrime(q) /\ HasOrder(ec, call.args[1], q))
  => t # call.args[1]

\* the last add step of 19.(5, 1): t = 18.(5, 1) = (5, 16)
C10_Witness ==
  /\ pc = "add"
  /\ ec = F17
  /\ call.args = <<Coor(5, 1), 19>>
  /\ HasOrder(ec, Coor(5, 1), 19)
  /\ i = 0
  /\ t = Coor(5, 16)

====
